---------------------------- MODULE Spec2Model ----------------------------
(***************************************************************************)
(* Model of lib/charms/observability_libs/v0/metrics_endpoint_discovery.py *)
(*                                                                         *)
(* Two kinds of process take steps:                                        *)
(*   - the control process, which owns one MetricsEndpointObserver and     *)
(*     calls start_observer() / stop_observer() from a single thread;      *)
(*   - the Watch Loop processes that start_observer() spawns, each         *)
(*     running main(): watch the cluster, write the payload file, run the  *)
(*     dispatch command.                                                   *)
(* The payload file is the only state the two kinds share.  os.kill only   *)
(* queues SIGINT: the signalled process ends at a later step of its own.   *)
(* Strings that are split or joined are sequences of one-character         *)
(* strings; the other strings are atoms.                                   *)
(***************************************************************************)
EXTENDS Integers, Sequences, FiniteSets, TLC

(***************************************************************************)
(* Bounds of the model.                                                    *)
(***************************************************************************)
\* process identifiers the operating system hands out: 1..MaxProcs
MaxProcs == 2
\* cluster events that occur in one behaviour
MaxEvents == 2

Pids == 1..MaxProcs

(***************************************************************************)
(* Strings as sequences of characters.                                     *)
(***************************************************************************)
Comma == ","

\* The label values used below ("prometheus", "grafana", "other"), one
\* character each.
NameP == <<"p">>
NameG == <<"g">>
NameO == <<"o">>

\* The marker Juju sets inside a hook, and another variable of the
\* environment.
JUJU_CONTEXT_ID == "JUJU_CONTEXT_ID"
OtherVar == "PATH"

\* ",".join(names)  (start_observer, argv[1])
RECURSIVE Join(_)
Join(names) ==
    IF names = <<>> THEN <<>>
    ELSE IF Len(names) = 1 THEN names[1]
    ELSE names[1] \o <<Comma>> \o Join(Tail(names))

\* s.split(","): the pieces between the commas; one piece (the empty string)
\* for the empty string.
RECURSIVE SplitFrom(_, _, _)
SplitFrom(s, piece, done) ==
    IF s = <<>> THEN Append(done, piece)
    ELSE IF Head(s) = Comma THEN SplitFrom(Tail(s), <<>>, Append(done, piece))
    ELSE SplitFrom(Tail(s), Append(piece, Head(s)), done)

Split(s) == SplitFrom(s, <<>>, <<>>)

Range(s) == {s[i] : i \in 1..Len(s)}

\* s.split(sep) for any separator of one character.
RECURSIVE SplitAt(_, _, _, _)
SplitAt(s, sep, piece, done) ==
    IF s = <<>> THEN Append(done, piece)
    ELSE IF Head(s) = sep THEN SplitAt(Tail(s), sep, <<>>, Append(done, piece))
    ELSE SplitAt(Tail(s), sep, Append(piece, Head(s)), done)

(***************************************************************************)
(* The charm: self._charm.app.name and self._charm.unit.name, which Juju    *)
(* makes of the application name, "/" and the ordinal of the unit.          *)
(***************************************************************************)
Slash == "/"

AppPrometheus == <<"p", "r", "o", "m", "e", "t", "h", "e", "u", "s">>
AppDashed == <<"a", "-", "b">>

\* The charm of the main specification, and those of the specification that
\* draws the arguments widely.
Charms == {[app |-> <<"p">>, ordinal |-> <<"0">>]}
AllCharms ==
    {[app |-> a, ordinal |-> n] :
        a \in {AppPrometheus, AppDashed}, n \in {<<"3">>, <<"1", "0">>}}

\* self._charm.unit.name
UnitName(c) == c.app \o <<Slash>> \o c.ordinal

\* The first piece of the unit name.
UnitNumFirst(name) == SplitAt(name, Slash, <<>>, <<>>)[1]

\* unit_tag: unit_num = self._charm.unit.name.split("/")[-1]
UnitNum(name) ==
    LET pieces == SplitAt(name, Slash, <<>>, <<>>) IN pieces[Len(pieces)]

\* unit_tag: "unit-{}-{}".format(self._charm.app.name, unit_num)
unit_tag(c) == <<"unit-">> \o c.app \o <<"-">> \o UnitNum(UnitName(c))

(***************************************************************************)
(* The cluster: pods and the events of the change stream.                  *)
(***************************************************************************)
\* labels: the values of the label "app.kubernetes.io/name" on the pod (no
\* value when the pod does not carry the label).
PodP == [name |-> "prometheus-0", namespace |-> "ns1", labels |-> {NameP}]
PodO == [name |-> "other-0", namespace |-> "ns2", labels |-> {NameO}]

\* The (change, entity) pairs that occur.
Events ==
    { [change |-> "ADDED", pod |-> PodP], [change |-> "DELETED", pod |-> PodP],
      [change |-> "ADDED", pod |-> PodO] }

\* The lists of names a charm may construct the observer with.
WatchNameLists == { <<>>, <<NameP, NameG>> }

\* More of them: one name, a name of two characters, the empty name, a
\* repeated name, a name with a comma in it.
AllWatchNameLists ==
    WatchNameLists \cup
        { <<NameP>>, <<NameG, NameP>>, <<NameP, NameP>>, << <<>> >>,
          <<NameP, <<>>, NameG>>, << <<"p", "g">>, NameO >>,
          << <<"p", Comma, "g">> >> }

\* A watch without the label selector yields the events of every pod.
SelectsAll(to_watch, pod) == TRUE

\* client.watch(Pod, namespace="*", labels={key: to_watch}): the stream
\* yields the events of the pods carrying the label with one of the values.
Selects(to_watch, pod) == pod.labels \cap Range(to_watch) # {}

\* A payload with the name and the namespace in each other's place.
PayloadSwapped(e) ==
    [change |-> e.change, namespace |-> e.pod.name, name |-> e.pod.namespace]

\* The payload main() builds from one (change, entity) pair.
PayloadOf(e) ==
    [change |-> e.change, namespace |-> e.pod.namespace, name |-> e.pod.name]

\* json.dumps(payload): the text of the object, keys in insertion order.
json_dumps(payload) ==
    <<"change", payload.change, "namespace", payload.namespace,
      "name", payload.name>>

\* json.loads(text) of such a text.
json_loads(text) ==
    [change |-> text[2], namespace |-> text[4], name |-> text[6]]


\* What MetricsEndpointChangeEvent.__init__ obtains from the payload file:
\* open(PAYLOAD_FILE_PATH, 'r') fails when the file does not exist and
\* json.loads fails on a text that is not the text of one object.
NoRecord == [change |-> "", namespace |-> "", name |-> ""]

ReadPayload(file) ==
    IF ~file.exists THEN [err |-> "FileNotFoundError", discovered |-> NoRecord]
    ELSE IF Len(file.text) # Len(json_dumps(NoRecord))
         THEN [err |-> "JSONDecodeError", discovered |-> NoRecord]
    ELSE [err |-> "none", discovered |-> json_loads(file.text)]

NoEvent ==
    [change |-> "", pod |-> [name |-> "", namespace |-> "", labels |-> {}]]

\* A write_payload that opens the file to append to it.
OpenModeAppend == "a"

\* write_payload: the mode of open(PAYLOAD_FILE_PATH, "w").
OpenMode == "w"

\* The file once open(PAYLOAD_FILE_PATH, mode) has returned: it exists, and
\* mode "w" has emptied it.
FileAfterOpen(file) ==
    [exists |-> TRUE, text |-> IF OpenMode = "w" THEN <<>> ELSE file.text]

\* The file once f.write(text) has been done and f closed.  A file opened
\* with "w" is written from its start, over what another process may have
\* put there since the open; one opened with "a" is written at its end.
FileAfterWrite(file, text) ==
    [exists |-> TRUE,
     text |-> IF OpenMode = "w"
              THEN text \o SubSeq(file.text, Len(text) + 1, Len(file.text))
              ELSE file.text \o text]

\* write_payload(payload) when no other process touches the file meanwhile.
write_payload(file, payload) ==
    FileAfterWrite(FileAfterOpen(file), json_dumps(payload))

(***************************************************************************)
(* The statements of the Watch Loop.  pc = 0 is the loop head, blocked in  *)
(* client.watch; pc = i > 0 means statement i of LoopBody is next.  After   *)
(* the last one the loop is back at its head.                              *)
(*   "open"   open(PAYLOAD_FILE_PATH, "w"): the file exists and is empty   *)
(*   "write"  f.write(json.dumps(payload)) and the close of the file       *)
(*   "run"    subprocess.run starts the command                            *)
(*   "wait"   subprocess.run waits for the command to end                  *)
(***************************************************************************)
\* write_payload(payload)
WritePayloadBody == <<"open", "write">>

\* A dispatch that starts the command and does not wait for it
\* (subprocess.Popen in place of subprocess.run).
DispatchBodyNoWait == <<"run">>

\* dispatch(run_cmd, unit, charm_dir)
DispatchBody == <<"run", "wait">>

\* A loop body that dispatches before it writes the payload.
LoopBodyDispatchFirst == DispatchBody \o WritePayloadBody

\* A loop body that dispatches a second time.
LoopBodyRetry == WritePayloadBody \o DispatchBody \o DispatchBody

\* The body of the for loop of main().
LoopBody == WritePayloadBody \o DispatchBody

Stmt(i) == IF i \in 1..Len(LoopBody) THEN LoopBody[i] ELSE "watch"

\* The position after statement i: 0, the loop head, after the last one.
Following(i) == IF i < Len(LoopBody) THEN i + 1 ELSE 0

(***************************************************************************)
(* The supervisor: MetricsEndpointObserver.                                *)
(***************************************************************************)
\* __init__: self._observer_pid = 0
InitObserverPid == 0

\* A stop_observer without the test of self._observer_pid.
StopKillsAlways(pid) == TRUE

\* stop_observer: "if not self._observer_pid: return", else os.kill is
\* called on the recorded identifier.
StopKills(pid) == pid # 0

\* os.kill(pid, SIGINT): the signal is queued for a process that exists;
\* otherwise os.kill raises OSError (ESRCH).  A process that has ended exists
\* (as a zombie) until it is reaped: reaped tells whether that has happened
\* by the time of the call.  Pid 0 names the caller's own process group,
\* which exists.
KillResult(pid, states, reaped) ==
    IF pid \notin DOMAIN states THEN "sent"
    ELSE IF states[pid] = "running" THEN "sent"
    ELSE IF states[pid] = "ended" /\ ~reaped THEN "sent"
    ELSE "ESRCH"

\* The queued signals after os.kill(pid, SIGINT).
Signalled(pid, states, queued) ==
    IF pid \in DOMAIN states /\ states[pid] = "running"
    THEN [queued EXCEPT ![pid] = TRUE]
    ELSE queued

\* A stop_observer without the except clause.
StopRaisesUncaught(killres) == IF killres = "ESRCH" THEN "OSError" ELSE "none"

\* try: os.kill(...) except OSError: pass -- what stop_observer raises.
StopRaises(killres) == "none"

\* self._observer_pid when stop_observer returns: it is not assigned.
PidAfterStop(pid) == pid

\* new_env = os.environ.copy(); new_env.pop("JUJU_CONTEXT_ID") raises KeyError
\* when the marker is not in the environment.
EnvPopRaises(env) == JUJU_CONTEXT_ID \notin env

\* An environment handed on as it is.
EnvKept(env) == env

\* new_env once the marker is popped from the copy.
EnvPop(env) == env \ {JUJU_CONTEXT_ID}

VARIABLES
    observer_pid,   \* self._observer_pid
    watch_names,    \* self._watch_names
    environ,        \* os.environ of the control process
    charm,          \* self._charm: the application name and the ordinal
    started,        \* start_observer() has been called on the supervisor
    lastcall,       \* what the call did, in the state that follows it
    pstate,         \* pid -> "unborn", "running", "ended"
    sigint,         \* pid -> a SIGINT is queued for the process
    penv,           \* pid -> the environment the process was spawned with
    to_watch,       \* pid -> to_watch of main()
    pc,             \* pid -> position in the loop of main()
    entity,         \* pid -> the (change, entity) pair of the current iteration
    stream,         \* pid -> events the watch has yielded, not yet consumed
    iter,           \* pid -> what the current iteration has done so far
    payload_file,   \* the file at PAYLOAD_FILE_PATH
    lastwriter,     \* the process that opened the payload file for writing last
    everwritten,    \* a record has been written to the payload file
    nevents,        \* cluster events so far
    skipped,        \* in the state that follows a cluster event: the running
                    \* processes it was not yielded to
    lastiter,       \* in the state that follows the end of an iteration: the
                    \* process and the counts of what the iteration did
    streamend       \* in the state that follows the end of a change stream:
                    \* the process whose stream it was, otherwise 0

supervisor == <<observer_pid, watch_names, environ, charm, started>>
osprocs == <<pstate, sigint, penv, to_watch>>
loopvars == <<pc, entity, iter>>
files == <<payload_file, lastwriter, everwritten>>
vars == <<supervisor, lastcall, osprocs, loopvars, stream, nevents, skipped,
          lastiter, streamend, files>>

\*   op       "start" or "stop"             again    a stop_observer() called
\*   kill     os.kill was called                     right after a stop_observer()
\*   killres  how os.kill ended             raised   what the call raised
\*   spawned  the process spawned, or 0     tag      what unit_tag returned
NoCall ==
    [op |-> "none", again |-> FALSE, kill |-> FALSE, killres |-> "none",
     raised |-> "none", spawned |-> 0, tag |-> <<>>]

\* What an iteration has done when it starts:
\*   writes   writes of the payload file      written  the record of the latest
\*   runs     subprocess.run calls made       returns  those that returned
\*   rc       return code of the latest (-1: none)
\*   reads    reads of the payload file the control process made on them
NoIter ==
    [writes |-> 0, written |-> NoRecord, runs |-> 0, returns |-> 0, rc |-> -1,
     reads |-> 0]

NoLastIter == [pid |-> 0, did |-> NoIter]

\* The state once the charm has constructed the observer, for a list of
\* names among lists and a charm among charms.
InitWith(lists, charms) ==
    /\ observer_pid = InitObserverPid
    /\ watch_names \in lists
    /\ environ \in {{JUJU_CONTEXT_ID, OtherVar}, {OtherVar}}
    /\ charm \in charms
    /\ started = FALSE
    /\ lastcall = NoCall
    /\ pstate = [p \in Pids |-> "unborn"]
    /\ sigint = [p \in Pids |-> FALSE]
    /\ penv = [p \in Pids |-> {}]
    /\ to_watch = [p \in Pids |-> <<>>]
    /\ pc = [p \in Pids |-> 0]
    /\ entity = [p \in Pids |-> NoEvent]
    /\ stream = [p \in Pids |-> <<>>]
    /\ iter = [p \in Pids |-> NoIter]
    /\ payload_file = [exists |-> FALSE, text |-> <<>>]
    /\ lastwriter = 0
    /\ everwritten = FALSE
    /\ nevents = 0
    /\ skipped = {}
    /\ lastiter = NoLastIter
    /\ streamend = 0

Init == InitWith(WatchNameLists, Charms)

InitArgs == InitWith(AllWatchNameLists, AllCharms)

(***************************************************************************)
(* The calls of the control process.                                       *)
(***************************************************************************)
\* What stop_observer() does from the present state, as a record:
\*   kill     os.kill was called          killres  how it ended
\*   raised   what stop_observer raises   pid      self._observer_pid after
\*   queued   the queued signals after
StopEffect(reaped) ==
    IF StopKills(observer_pid)
    THEN LET res == KillResult(observer_pid, pstate, reaped)
         IN  [kill |-> TRUE, killres |-> res, raised |-> StopRaises(res),
              pid |-> PidAfterStop(observer_pid),
              queued |-> Signalled(observer_pid, pstate, sigint)]
    ELSE [kill |-> FALSE, killres |-> "none", raised |-> "none",
          pid |-> observer_pid, queued |-> sigint]

CallRecord(op, eff, raised, spawned) ==
    [op |-> op, again |-> (op = "stop" /\ lastcall.op = "stop"), kill |-> eff.kill,
     killres |-> eff.killres, raised |-> raised, spawned |-> spawned,
     tag |-> <<>>]

\* stop_observer()
StopObserver(reaped) ==
    /\ LET eff == StopEffect(reaped)
       IN  /\ sigint' = eff.queued
           /\ observer_pid' = eff.pid
           /\ lastcall' = CallRecord("stop", eff, eff.raised, 0)
    /\ skipped' = {}
    /\ lastiter' = NoLastIter
    /\ streamend' = 0
    /\ UNCHANGED <<watch_names, environ, charm, started, pstate, penv, to_watch,
                   loopvars, stream, nevents, files>>

\* start_observer() when JUJU_CONTEXT_ID is not in the environment:
\* new_env.pop raises KeyError after stop_observer() has run.
StartObserverKeyError(reaped) ==
    /\ LET eff == StopEffect(reaped)
       IN  /\ eff.raised = "none"
           /\ EnvPopRaises(environ)
           /\ sigint' = eff.queued
           /\ observer_pid' = eff.pid
           /\ lastcall' = CallRecord("start", eff, "KeyError", 0)
    /\ started' = TRUE
    /\ skipped' = {}
    /\ lastiter' = NoLastIter
    /\ streamend' = 0
    /\ UNCHANGED <<watch_names, environ, charm, pstate, penv, to_watch,
                   loopvars,
                   stream, nevents, files>>

\* start_observer() when open("/var/log/discovery.log", "a") or
\* subprocess.Popen raises OSError: no process is spawned.
StartObserverSpawnFails(reaped) ==
    /\ LET eff == StopEffect(reaped)
       IN  /\ eff.raised = "none"
           /\ ~EnvPopRaises(environ)
           /\ sigint' = eff.queued
           /\ observer_pid' = eff.pid
           /\ lastcall' = CallRecord("start", eff, "SpawnError", 0)
    /\ started' = TRUE
    /\ skipped' = {}
    /\ lastiter' = NoLastIter
    /\ streamend' = 0
    /\ UNCHANGED <<watch_names, environ, charm, pstate, penv, to_watch,
                   loopvars,
                   stream, nevents, files>>

\* self.unit_tag read by the charm: a property that only computes.
UnitTag ==
    /\ lastcall' = [NoCall EXCEPT !.op = "unit_tag", !.tag = unit_tag(charm)]
    /\ skipped' = {}
    /\ lastiter' = NoLastIter
    /\ streamend' = 0
    /\ UNCHANGED <<supervisor, osprocs, loopvars, stream, nevents, files>>

\* The identifier the operating system gives the next process.
FreshPids == {p \in Pids : pstate[p] = "unborn"}
NewPid == CHOOSE p \in FreshPids : \A q \in FreshPids : p <= q

\* start_observer() that spawns the Watch Loop: the new process runs main()
\* up to client.watch.  An exception of stop_observer() would end the call
\* before anything else is done.
StartObserver(reaped) ==
    /\ LET eff == StopEffect(reaped)
           pid == NewPid
       IN  IF eff.raised # "none"
           THEN /\ sigint' = eff.queued
                /\ observer_pid' = eff.pid
                /\ lastcall' = CallRecord("start", eff, eff.raised, 0)
                /\ started' = TRUE
                /\ UNCHANGED <<pstate, penv, to_watch>>
           ELSE /\ FreshPids # {}
                /\ ~EnvPopRaises(environ)
                /\ sigint' = eff.queued
                /\ pstate' = [pstate EXCEPT ![pid] = "running"]
                /\ penv' = [penv EXCEPT ![pid] = EnvPop(environ)]
                /\ to_watch' = [to_watch EXCEPT ![pid] = Split(Join(watch_names))]
                /\ observer_pid' = pid
                /\ lastcall' = CallRecord("start", eff, "none", pid)
    /\ started' = TRUE
    /\ skipped' = {}
    /\ lastiter' = NoLastIter
    /\ streamend' = 0
    /\ UNCHANGED <<watch_names, environ, charm, loopvars, stream, nevents, files>>

(***************************************************************************)
(* The cluster and the Watch Loop processes.                               *)
(***************************************************************************)
\* A pod changes.  The watch of every running Watch Loop whose selector
\* selects the pod yields the event.
ClusterEvent(e) ==
    /\ nevents < MaxEvents
    /\ nevents' = nevents + 1
    /\ stream' = [p \in Pids |->
                   IF pstate[p] = "running" /\ Selects(to_watch[p], e.pod)
                   THEN Append(stream[p], e) ELSE stream[p]]
    /\ skipped' = {p \in Pids : pstate[p] = "running" /\ ~Selects(to_watch[p], e.pod)}
    /\ lastcall' = NoCall
    /\ lastiter' = NoLastIter
    /\ streamend' = 0
    /\ UNCHANGED <<supervisor, osprocs, loopvars, files>>

\* The process ends: what was queued for it (signals, events of its watch),
\* its memory and what is recorded here of its run go with it.
Ends(p) ==
    /\ pstate' = [pstate EXCEPT ![p] = "ended"]
    /\ sigint' = [sigint EXCEPT ![p] = FALSE]
    /\ stream' = [stream EXCEPT ![p] = <<>>]
    /\ pc' = [pc EXCEPT ![p] = 0]
    /\ entity' = [entity EXCEPT ![p] = NoEvent]
    /\ iter' = [iter EXCEPT ![p] = NoIter]
    /\ lastcall' = NoCall
    /\ skipped' = {}
    /\ lastiter' = NoLastIter
    /\ UNCHANGED <<supervisor, penv, to_watch, nevents, files>>

\* Process p is about to execute statement s.  At the loop head that is the
\* first statement of the body, once the watch has a pair to yield: the step
\* that executes it takes the pair as well, since taking it touches nothing
\* another process can see.
Ready(p, s) ==
    /\ pstate[p] = "running"
    /\ IF pc[p] = 0 THEN stream[p] # <<>> /\ Stmt(1) = s ELSE Stmt(pc[p]) = s

\* for change, entity in client.watch(...): the pair of the iteration.
Current(p) == IF pc[p] = 0 THEN Head(stream[p]) ELSE entity[p]

\* Process p has executed the statement it was ready for, and did is what its
\* iteration has done by now.  After the last statement the loop is back at
\* its head: the pair is not read again before the next one replaces it.
Advance(p, did) ==
    LET next == Following(IF pc[p] = 0 THEN 1 ELSE pc[p])
    IN  /\ pc' = [pc EXCEPT ![p] = next]
        /\ stream' = [stream EXCEPT ![p] = IF pc[p] = 0 THEN Tail(@) ELSE @]
        /\ lastcall' = NoCall
        /\ skipped' = {}
        /\ streamend' = 0
        /\ IF next # 0
           THEN /\ entity' = [entity EXCEPT ![p] = Current(p)]
                /\ iter' = [iter EXCEPT ![p] = did]
                /\ lastiter' = NoLastIter
           ELSE /\ entity' = [entity EXCEPT ![p] = NoEvent]
                /\ iter' = [iter EXCEPT ![p] = NoIter]
                /\ lastiter' = [pid |-> p, did |-> [did EXCEPT !.written = NoRecord]]

\* write_payload: open(PAYLOAD_FILE_PATH, "w") creates or empties the file.
OpenPayload(p) ==
    /\ Ready(p, "open")
    /\ payload_file' = FileAfterOpen(payload_file)
    /\ lastwriter' = p
    /\ UNCHANGED everwritten
    /\ Advance(p, iter[p])
    /\ UNCHANGED <<supervisor, osprocs, nevents>>

\* write_payload: f.write(json.dumps(payload)), and the file is closed.
WritePayload(p) ==
    /\ Ready(p, "write")
    /\ payload_file' = FileAfterWrite(payload_file, json_dumps(PayloadOf(Current(p))))
    /\ lastwriter' = p
    /\ everwritten' = TRUE
    /\ Advance(p, [iter[p] EXCEPT !.writes = @ + 1,
                                  !.written = json_loads(json_dumps(PayloadOf(Current(p))))])
    /\ UNCHANGED <<supervisor, osprocs, nevents>>

\* dispatch: subprocess.run starts the juju-run command.
DispatchRun(p) ==
    /\ Ready(p, "run")
    /\ Advance(p, [iter[p] EXCEPT !.runs = @ + 1])
    /\ UNCHANGED <<supervisor, osprocs, nevents, files>>

\* dispatch: the command cannot be executed.  subprocess.run raises, nothing
\* catches the exception and the process ends.
DispatchCannotExec(p) ==
    /\ Ready(p, "run")
    /\ Ends(p)
    /\ streamend' = 0

\* dispatch: the command ran the hook.  The control process constructed the
\* MetricsEndpointChangeEvent, which reads the payload file; the command
\* exits 0 or, when the read raised, non-zero.  subprocess.run returns and
\* the return code is dropped.
DispatchHandled(p) ==
    /\ Ready(p, "wait")
    /\ Advance(p, [iter[p] EXCEPT
                     !.reads = @ + 1, !.returns = @ + 1,
                     !.rc = IF ReadPayload(payload_file).err = "none" THEN 0 ELSE 1])
    /\ UNCHANGED <<supervisor, osprocs, nevents, files>>

\* dispatch: the command exits non-zero without having run the hook.
\* subprocess.run returns and the return code is dropped.
DispatchFailed(p) ==
    /\ Ready(p, "wait")
    /\ Advance(p, [iter[p] EXCEPT !.returns = @ + 1, !.rc = 1])
    /\ UNCHANGED <<supervisor, osprocs, nevents, files>>

\* The queued SIGINT is delivered: KeyboardInterrupt ends the process,
\* wherever it is.
Interrupted(p) ==
    /\ pstate[p] = "running"
    /\ sigint[p]
    /\ Ends(p)
    /\ streamend' = 0

\* The change stream ends and the for loop starts over with a new watch: not
\* what main() does.
StreamReconnects(p) ==
    /\ pstate[p] = "running"
    /\ pc[p] = 0
    /\ stream' = [stream EXCEPT ![p] = <<>>]
    /\ streamend' = p
    /\ lastcall' = NoCall
    /\ skipped' = {}
    /\ lastiter' = NoLastIter
    /\ UNCHANGED <<supervisor, osprocs, loopvars, nevents, files>>

\* The change stream ends or raises: the for loop is left, by its end or by
\* the exception that nothing catches, and main() ends.
StreamEnds(p) ==
    /\ pstate[p] = "running"
    /\ pc[p] = 0
    /\ Ends(p)
    /\ streamend' = p

\* Whether the process os.kill names has been reaped by the time of the call
\* is open when it has ended, and makes no difference otherwise.
Reaped ==
    IF observer_pid \in Pids /\ pstate[observer_pid] = "ended"
    THEN BOOLEAN ELSE {FALSE}

Next ==
    \/ \E reaped \in Reaped : StartObserver(reaped)
    \/ \E reaped \in Reaped : StartObserverKeyError(reaped)
    \/ \E reaped \in Reaped : StartObserverSpawnFails(reaped)
    \/ \E reaped \in Reaped : StopObserver(reaped)
    \/ \E e \in Events : ClusterEvent(e)
    \/ \E p \in Pids : OpenPayload(p)
    \/ \E p \in Pids : WritePayload(p)
    \/ \E p \in Pids : DispatchRun(p)
    \/ \E p \in Pids : DispatchCannotExec(p)
    \/ \E p \in Pids : DispatchHandled(p)
    \/ \E p \in Pids : DispatchFailed(p)
    \/ \E p \in Pids : Interrupted(p)
    \/ \E p \in Pids : StreamEnds(p)

Spec == Init /\ [][Next]_vars

\* The supervisor alone, its arguments drawn widely: the calls of the charm,
\* unit_tag among them, and Watch Loops that no cluster event reaches.
NextArgs ==
    \/ \E reaped \in Reaped : StartObserver(reaped)
    \/ \E reaped \in Reaped : StartObserverKeyError(reaped)
    \/ \E reaped \in Reaped : StartObserverSpawnFails(reaped)
    \/ \E reaped \in Reaped : StopObserver(reaped)
    \/ UnitTag
    \/ \E p \in Pids : Interrupted(p)
    \/ \E p \in Pids : StreamEnds(p)

SpecArgs == InitArgs /\ [][NextArgs]_vars

(***************************************************************************)
(* The properties.  InBody(p, s): process p is inside an iteration and      *)
(* statement s is the next one it executes.  RecordOf(e), TextOf(e): the    *)
(* record the specification asks for the pair e, and its text.              *)
(***************************************************************************)
Running == {p \in Pids : pstate[p] = "running"}

InBody(p, s) == pstate[p] = "running" /\ pc[p] >= 1 /\ Stmt(pc[p]) = s

RecordOf(e) ==
    [change |-> e.change, namespace |-> e.pod.namespace, name |-> e.pod.name]

TextOf(e) ==
    <<"change", e.change, "namespace", e.pod.namespace, "name", e.pod.name>>

\* C1 (as stated): whatever start_observer() and stop_observer() calls have
\* been made, at most one Watch Loop process spawned by the supervisor is
\* running.
C1_AtMostOneRunning == Cardinality(Running) <= 1

C3_OneWriteOneDispatchPerEvent ==
    /\ \A p \in Pids :
         /\ InBody(p, "write") => iter[p].writes = 0 /\ iter[p].runs = 0
         /\ InBody(p, "run") =>
              /\ iter[p].writes = 1 /\ iter[p].runs = 0
              /\ iter[p].written = RecordOf(entity[p])
         /\ InBody(p, "wait") =>
              /\ iter[p].writes = 1 /\ iter[p].runs = 1
              /\ iter[p].written = RecordOf(entity[p])
    /\ lastiter.pid # 0 => lastiter.did.writes = 1 /\ lastiter.did.runs = 1

\* A process has ended an iteration with one write and one dispatch, the
\* payload file holds the record it wrote, and the next pair its watch yields
\* is the same change of the same pod: the process is ready to handle it.
C3_Witness ==
    \E p \in Pids :
        /\ lastiter.pid = p
        /\ lastiter.did.writes = 1 /\ lastiter.did.runs = 1
        /\ lastwriter = p
        /\ stream[p] # <<>>
        /\ payload_file.text = TextOf(Head(stream[p]))
        /\ Ready(p, "open")

\* C4: a Watch Loop is never handed an event of a pod whose labels do not
\* intersect its label set, so it writes and dispatches for none: the pairs
\* its watch holds, the pair it works on and the record in the payload file
\* all belong to pods the label set selects.
C4_UnselectedEventsAreNotHandled ==
    /\ \A p \in Pids :
         /\ \A i \in 1..Len(stream[p]) :
              stream[p][i].pod.labels \cap Range(to_watch[p]) # {}
         /\ pc[p] >= 1 => entity[p].pod.labels \cap Range(to_watch[p]) # {}
    /\ payload_file.text # <<>> =>
         \E e \in Events :
             /\ payload_file.text = TextOf(e)
             /\ e.pod.labels \cap Range(to_watch[lastwriter]) # {}

\* A pod without a watched label has changed while a Watch Loop that watches
\* for "p" and "g" was running and idle: the loop stays idle and there is no
\* payload file.
C4_Witness ==
    \E p \in skipped :
        /\ to_watch[p] = <<NameP, NameG>>
        /\ pstate[p] = "running"
        /\ pc[p] = 0 /\ stream[p] = <<>>
        /\ ~payload_file.exists

\* C5: within one Watch Loop the command is run only after the payload was
\* written, no dispatch is in flight while the loop is at its head or in
\* write_payload, and an iteration ends only when its dispatch has returned.
C5_StrictlySequential ==
    /\ \A p \in Pids :
         /\ iter[p].runs >= 1 => iter[p].writes >= 1
         /\ InBody(p, "run") => iter[p].writes = 1
         /\ (pc[p] = 0 \/ InBody(p, "open") \/ InBody(p, "write")) =>
              iter[p].returns = iter[p].runs
    /\ lastiter.pid # 0 => lastiter.did.returns = lastiter.did.runs

\* A dispatch is in flight while the watch already holds the next pair.
C5_Witness ==
    \E p \in Pids : InBody(p, "wait") /\ iter[p].writes = 1 /\ stream[p] # <<>>

\* C6 (as stated): when stop_observer() has signalled the recorded process,
\* the supervisor records no process.
C6_StopClearsPid ==
    lastcall.op = "stop" /\ lastcall.kill => observer_pid = 0

\* C7 (as stated): a stop_observer() that follows a stop_observer() calls
\* os.kill on nothing.
C7_StopAgainSendsNoSignal ==
    lastcall.op = "stop" /\ lastcall.again => ~lastcall.kill

\* C8: stop_observer() on a supervisor on which start_observer() was never
\* called does not call os.kill and raises nothing, and the supervisor and
\* the processes are as they were at construction.
C8_StopBeforeStartIsNoOp ==
    lastcall.op = "stop" /\ ~started =>
        /\ ~lastcall.kill
        /\ lastcall.raised = "none"
        /\ observer_pid = 0
        /\ \A p \in Pids : pstate[p] = "unborn" /\ ~sigint[p]

\* stop_observer() has been called on a supervisor never started.
C8_Witness == lastcall.op = "stop" /\ ~started /\ lastcall.raised = "none"

\* C9: when os.kill finds no process (ESRCH), stop_observer() raises nothing,
\* and a start_observer() whose stop_observer() met it goes on: it raises at
\* most what its later statements raise, and when it raises nothing the new
\* process runs and is the one recorded.
C9_NoSuchProcessIsSwallowed ==
    lastcall.killres = "ESRCH" =>
        /\ lastcall.op = "stop" => lastcall.raised = "none"
        /\ lastcall.op = "start" =>
             /\ lastcall.raised \in {"none", "KeyError", "SpawnError"}
             /\ lastcall.raised = "none" =>
                  /\ lastcall.spawned \in Pids
                  /\ pstate[lastcall.spawned] = "running"
                  /\ observer_pid = lastcall.spawned

\* start_observer() has spawned a process after its os.kill found none.
C9_Witness ==
    /\ lastcall.op = "start"
    /\ lastcall.killres = "ESRCH"
    /\ lastcall.spawned \in Pids
    /\ pstate[lastcall.spawned] = "running"

C12_ReaderSeesCompleteRecord ==
    lastiter.pid # 0 /\ lastiter.did.reads = 1 => lastiter.did.rc = 0

\* C13: the environment of every spawned Watch Loop, which is the one its
\* dispatch commands run with, holds the variables of the control process's
\* environment except JUJU_CONTEXT_ID, and the control process's own
\* environment still holds JUJU_CONTEXT_ID after start_observer() has
\* spawned.
C13_SpawnedWithoutHookMarker ==
    \A p \in Pids :
        pstate[p] # "unborn" =>
            /\ JUJU_CONTEXT_ID \notin penv[p]
            /\ \A v \in (environ \cup penv[p]) \ {JUJU_CONTEXT_ID} :
                 v \in penv[p] /\ v \in environ
            /\ JUJU_CONTEXT_ID \in environ

\* A dispatch command is running in a Watch Loop spawned from an environment
\* that holds the marker.
C13_Witness ==
    \E p \in Pids :
        /\ InBody(p, "wait") /\ iter[p].runs = 1
        /\ penv[p] = {OtherVar}
        /\ environ = {JUJU_CONTEXT_ID, OtherVar}

\* C14 (as stated): as long as no record has ever been written to the payload
\* file, and no process is inside write_payload, a read fails with
\* FileNotFoundError and returns no record.
C14_NeverWrittenIsNotFound ==
    ~everwritten /\ (\A p \in Pids : ~InBody(p, "write")) =>
        ReadPayload(payload_file) =
            [err |-> "FileNotFoundError", discovered |-> NoRecord]


\* C15: reading unit_tag gives "unit-", the application name, "-" and the
\* ordinal that follows the "/" of the unit name, the same every time it is
\* read, and changes nothing of the supervisor, of the processes or of the
\* payload file.
C15_UnitTagIsPure ==
    [][lastcall'.op = "unit_tag" =>
          /\ lastcall'.tag = <<"unit-">> \o charm.app \o <<"-">> \o charm.ordinal
          /\ lastcall.op = "unit_tag" => lastcall'.tag = lastcall.tag
          /\ UNCHANGED <<supervisor, osprocs, loopvars, stream, nevents, files>>]_vars

\* unit_tag has been read in unit 3 of prometheus and gave
\* "unit-prometheus-3".
C15_Witness ==
    /\ lastcall.op = "unit_tag"
    /\ charm = [app |-> AppPrometheus, ordinal |-> <<"3">>]
    /\ lastcall.tag = <<"unit-">> \o AppPrometheus \o <<"-", "3">>


\* C16: the step in which the change stream of a Watch Loop ends or raises
\* ends the process; and a process that has ended stays ended: it has no
\* watch open again, is at no statement of the loop, completes no iteration
\* and does not open or write the payload file.
C16_StreamEndTerminates ==
    [][\A p \in Pids :
          /\ streamend' = p => pstate[p] = "running" /\ pstate'[p] = "ended"
          /\ pstate[p] = "ended" =>
                /\ pstate'[p] = "ended"
                /\ stream'[p] = <<>>
                /\ pc'[p] = 0 /\ iter'[p] = NoIter
                /\ lastiter'.pid # p
                /\ lastwriter' = p => UNCHANGED <<payload_file, lastwriter>>]_vars

\* The change stream of a Watch Loop that has written the payload file last
\* has just ended, with the supervisor still holding its pid.
C16_Witness ==
    /\ streamend # 0
    /\ pstate[streamend] = "ended"
    /\ everwritten /\ lastwriter = streamend
    /\ observer_pid = streamend


C18_WatchNamesSurviveHandOff ==
    \A p \in Pids : pstate[p] # "unborn" => to_watch[p] = watch_names

=============================================================================
